---- MODULE Spec2Model ----
(***************************************************************************)
(* A model of the shift-report importers and of the balance calculator.    *)
(*                                                                         *)
(*   workshop_model.py     ProcessStream.calculate_metrics and             *)
(*                         WorkshopShiftEntry.calculate_performance        *)
(*   import_accounting.py  get_date_from_filename, parse_file, main        *)
(*   import_august.py      parse_file, main                                *)
(*                                                                         *)
(* Python floats are modelled by exact rationals (sign, numerator,         *)
(* denominator) over unbounded naturals; the naturals are sequences of     *)
(* limbs, least significant first, because TLC's integers are 32 bits      *)
(* wide.  IEEE rounding of the last binary digit is therefore not          *)
(* modelled.  Text is modelled as a sequence of one-character strings.     *)
(***************************************************************************)
EXTENDS Integers, Sequences, FiniteSets, TLC

(***************************************************************************)
(* Unbounded naturals                                                      *)
(***************************************************************************)
Base == 10000

RECURSIVE BNorm(_)
BNorm(a) ==
    IF a = <<>> THEN <<>>
    ELSE IF a[Len(a)] = 0 THEN BNorm(SubSeq(a, 1, Len(a) - 1))
    ELSE a

RECURSIVE BFromInt(_)
BFromInt(k) ==
    IF k = 0 THEN <<>> ELSE <<k % Base>> \o BFromInt(k \div Base)

BRest(a) == IF a = <<>> THEN <<>> ELSE Tail(a)

BLow(a) == IF a = <<>> THEN 0 ELSE Head(a)

RECURSIVE BAddC(_, _, _)
BAddC(a, b, c) ==
    IF a = <<>> /\ b = <<>>
    THEN (IF c = 0 THEN <<>> ELSE <<c>>)
    ELSE LET x == BLow(a) + BLow(b) + c
         IN  <<x % Base>> \o BAddC(BRest(a), BRest(b), x \div Base)

BAdd(a, b) == BAddC(a, b, 0)

\* a - b for a >= b
RECURSIVE BSubB(_, _, _)
BSubB(a, b, br) ==
    IF a = <<>> THEN <<>>
    ELSE LET x == Head(a) - BLow(b) - br
         IN  IF x < 0
             THEN <<x + Base>> \o BSubB(Tail(a), BRest(b), 1)
             ELSE <<x>> \o BSubB(Tail(a), BRest(b), 0)

BSub(a, b) == BNorm(BSubB(a, b, 0))

\* a * k for 0 <= k < Base
RECURSIVE BMulC(_, _, _)
BMulC(a, k, c) ==
    IF a = <<>> THEN (IF c = 0 THEN <<>> ELSE <<c>>)
    ELSE LET x == Head(a) * k + c
         IN  <<x % Base>> \o BMulC(Tail(a), k, x \div Base)

BMulS(a, k) == BNorm(BMulC(a, k, 0))

BShift(a) == IF a = <<>> THEN <<>> ELSE <<0>> \o a

RECURSIVE BMul(_, _)
BMul(a, b) ==
    IF a = <<>> \/ b = <<>> THEN <<>>
    ELSE BAdd(BMulS(b, Head(a)), BShift(BMul(Tail(a), b)))

\* -1, 0, 1 as a < b, a = b, a > b
RECURSIVE BCmpAt(_, _, _)
BCmpAt(a, b, i) ==
    IF i = 0 THEN 0
    ELSE IF a[i] < b[i] THEN -1
    ELSE IF a[i] > b[i] THEN 1
    ELSE BCmpAt(a, b, i - 1)

BCmp(a, b) ==
    IF Len(a) < Len(b) THEN -1
    ELSE IF Len(a) > Len(b) THEN 1
    ELSE BCmpAt(a, b, Len(a))

\* the largest k in lo..hi with d * k <= r  (d * lo <= r is given)
RECURSIVE BQuot(_, _, _, _)
BQuot(r, d, lo, hi) ==
    IF lo = hi THEN lo
    ELSE LET mid == (lo + hi + 1) \div 2
         IN  IF BCmp(BMulS(d, mid), r) <= 0
             THEN BQuot(r, d, mid, hi)
             ELSE BQuot(r, d, lo, mid - 1)

\* long division of n by d # 0, most significant limb first: <<quotient, remainder>>
RECURSIVE BDivAt(_, _, _, _, _)
BDivAt(n, d, i, q, r) ==
    IF i = 0 THEN <<BNorm(q), r>>
    ELSE LET r1 == BNorm(<<n[i]>> \o r)
             k  == BQuot(r1, d, 0, Base - 1)
         IN  BDivAt(n, d, i - 1, <<k>> \o q, BSub(r1, BMulS(d, k)))

BDivMod(n, d) == BDivAt(n, d, Len(n), <<>>, <<>>)

RECURSIVE BPow10(_)
BPow10(k) == IF k = 0 THEN <<1>> ELSE BMulS(BPow10(k - 1), 10)

(***************************************************************************)
(* Floats as exact rationals                                               *)
(***************************************************************************)
Abs(k) == IF k < 0 THEN -k ELSE k

\* the number n / d for integers n and d > 0
R(n, d) == [neg |-> n < 0, n |-> BFromInt(Abs(n)), d |-> BFromInt(d)]

RInt(n) == R(n, 1)

RZero(a) == a.n = <<>>

RPos(a) == ~a.neg /\ a.n # <<>>

RNonNeg(a) == ~a.neg \/ a.n = <<>>

RMul(a, b) ==
    LET n == BMul(a.n, b.n)
    IN  [neg |-> (n # <<>>) /\ (a.neg # b.neg), n |-> n, d |-> BMul(a.d, b.d)]

\* a / b for b # 0
RDiv(a, b) ==
    LET n == BMul(a.n, b.d)
    IN  [neg |-> (n # <<>>) /\ (a.neg # b.neg), n |-> n, d |-> BMul(a.d, b.n)]

RSub(a, b) ==
    LET x == BMul(a.n, b.d)
        y == BMul(b.n, a.d)
        d == BMul(a.d, b.d)
    IN  IF a.neg # b.neg
        THEN [neg |-> a.neg /\ (BAdd(x, y) # <<>>), n |-> BAdd(x, y), d |-> d]
        ELSE IF BCmp(x, y) >= 0
             THEN [neg |-> a.neg /\ (BCmp(x, y) > 0), n |-> BSub(x, y), d |-> d]
             ELSE [neg |-> ~a.neg, n |-> BSub(y, x), d |-> d]

REq(a, b) == (a.neg = b.neg) /\ (BMul(a.n, b.d) = BMul(b.n, a.d))

\* a <= b for a, b >= 0
RLeqNonNeg(a, b) == BCmp(BMul(a.n, b.d), BMul(b.n, a.d)) <= 0

\* format(a, ".kf") for a >= 0: the digits of a rounded to k decimals, as the
\* natural number round(a * 10^k), ties to even
Fmt(a, k) ==
    LET qr   == BDivMod(BMul(a.n, BPow10(k)), a.d)
        twice == BCmp(BMulS(qr[2], 2), a.d)
        odd  == BLow(qr[1]) % 2 = 1
    IN  IF twice > 0 \/ (twice = 0 /\ odd) THEN BAdd(qr[1], <<1>>) ELSE qr[1]

\* The value of the one element of a singleton set.  TLC evaluates a LET
\* definition again at every use; a value bound by a set constructor is
\* evaluated once.
Eval(S) == CHOOSE r \in S : TRUE

(***************************************************************************)
(* State                                                                   *)
(***************************************************************************)
VARIABLES
    entry,      \* workshop_model: the WorkshopShiftEntry under calculation
    calls,      \* workshop_model: calls of calculate_performance made on it
    raised,     \* workshop_model: a call ended in ZeroDivisionError
    edits,      \* workshop_model: measurements of the entry changed so far
    source,     \* the text handed to a date resolver
    resolved,   \* what the resolver returned for it
    script,     \* which importer is run: "accounting" or "august"
    batch,      \* main: the files found, in the order processed
    next,       \* main: the position in batch of the file to process next
    log,        \* for each file processed, the payloads handed to the upload
                \* and what was printed about the file
    crashed     \* main: an exception left the loop over the files

calcVars == <<entry, calls, raised, edits>>

dateVars == <<source, resolved>>

importVars == <<script, batch, next, log, crashed>>

vars == <<calcVars, dateVars, importVars>>

(***************************************************************************)
(* Text: a str is a sequence of characters, each a string of its own.      *)
(* Characters outside ASCII are spelled out: "nian" is the character of    *)
(* the year, "yue" of the month, "ri" of the day, "lparen" and "rparen"    *)
(* the full-width parentheses, "ban" "zu" the two characters of "shift     *)
(* group", "he" "suan" "biao" the three of "accounting sheet".             *)
(***************************************************************************)
Digits == <<"0", "1", "2", "3", "4", "5", "6", "7", "8", "9">>

IsDigit(c) == \E k \in 1..10 : Digits[k] = c

IsSpace(c) == c = " "

DigitVal(c) == (CHOOSE k \in 1..10 : Digits[k] = c) - 1

\* int(t) for a text of digits
RECURSIVE IntOf(_)
IntOf(t) ==
    IF t = <<>> THEN 0
    ELSE IntOf(SubSeq(t, 1, Len(t) - 1)) * 10 + DigitVal(t[Len(t)])

\* str(n) for n >= 0
RECURSIVE StrOf(_)
StrOf(n) ==
    IF n < 10 THEN <<Digits[n + 1]>>
    ELSE StrOf(n \div 10) \o <<Digits[(n % 10) + 1]>>

\* f"{n:02d}" for n >= 0
Fmt02(n) == IF n < 10 THEN <<"0">> \o StrOf(n) ELSE StrOf(n)

\* needle in hay
Contains(hay, needle) ==
    \E i \in 1..(Len(hay) - Len(needle) + 1) :
        SubSeq(hay, i, i + Len(needle) - 1) = needle

(***************************************************************************)
(* re.search.  A pattern is a sequence of items: a literal character, or a *)
(* greedy repetition (min to max times) of a character class, which may    *)
(* be a capturing group.  The matcher backtracks as Python's does: longer  *)
(* repetitions are tried before shorter ones, earlier start positions      *)
(* before later ones.                                                      *)
(***************************************************************************)
Unbounded == 1000

Lit(c) == [t |-> "lit", c |-> c, cls |-> "", min |-> 1, max |-> 1, grp |-> FALSE]

Rep(cls, min, max, grp) ==
    [t |-> "rep", c |-> "", cls |-> cls, min |-> min, max |-> max, grp |-> grp]

\* \d, \s and . (no text here holds a newline)
InClass(c, cls) ==
    IF cls = "d" THEN IsDigit(c)
    ELSE IF cls = "s" THEN IsSpace(c)
    ELSE TRUE

\* the end of the longest repetition of the item from position i: the
\* position after its last character
RECURSIVE RunEnd(_, _, _, _)
RunEnd(it, s, i, n) ==
    IF n < it.max /\ i + n <= Len(s) /\ InClass(s[i + n], it.cls)
    THEN RunEnd(it, s, i, n + 1)
    ELSE i + n

\* <<>> when the pattern does not match s from position i, else
\* <<the groups captured>> of the first match in backtracking order
RECURSIVE MatchAt(_, _, _, _)
RECURSIVE TryRep(_, _, _, _, _, _)
MatchAt(pat, s, i, g) ==
    IF pat = <<>> THEN <<g>>
    ELSE IF Head(pat).t = "lit"
    THEN IF i <= Len(s) /\ s[i] = Head(pat).c
         THEN MatchAt(Tail(pat), s, i + 1, g)
         ELSE <<>>
    ELSE TryRep(Head(pat), Tail(pat), s, i, RunEnd(Head(pat), s, i, 0), g)

TryRep(it, rest, s, i, n, g) ==
    IF n < i + it.min THEN <<>>
    ELSE Eval({ IF r # <<>> THEN r ELSE TryRep(it, rest, s, i, n - 1, g) :
                r \in {MatchAt(rest, s, n,
                               IF it.grp THEN Append(g, SubSeq(s, i, n - 1))
                               ELSE g)} })

RECURSIVE SearchFrom(_, _, _)
SearchFrom(pat, s, i) ==
    IF i > Len(s) + 1 THEN <<>>
    ELSE Eval({ IF r # <<>> THEN r ELSE SearchFrom(pat, s, i + 1) :
                r \in {MatchAt(pat, s, i, <<>>)} })

\* re.search(pat, s): <<>> for None, else <<match.groups()>>
re_search(pat, s) == SearchFrom(pat, s, 1)

(***************************************************************************)
(* workshop_model.py                                                       *)
(***************************************************************************)
MetalContent == [pb_ton |-> RInt(0), zn_ton |-> RInt(0), ag_kg |-> RInt(0)]

\* ProcessStream(wet_weight_ton=..., ...): the calculated fields start at 0.0
ProcessStream(wet, moisture, pb, zn, ag) ==
    [wet_weight_ton |-> wet, moisture_pct |-> moisture,
     pb_grade_pct |-> pb, zn_grade_pct |-> zn, ag_grade_gpt |-> ag,
     dry_weight_ton |-> RInt(0), metal_content |-> MetalContent]

PerformanceMetrics ==
    [yield_pct |-> RInt(0), recovery_pb_pct |-> RInt(0),
     recovery_zn_pct |-> RInt(0), recovery_ag_pct |-> RInt(0),
     enrichment_ratio_pb |-> RInt(0)]

\* tailings is Optional: <<>> is None, <<s>> holds the stream s
WorkshopShiftEntry(name, raw, conc, tail) ==
    [shift_name |-> name, raw_ore |-> raw, concentrate |-> conc,
     tailings |-> tail, performance |-> PerformanceMetrics]

\* the metal content of a stream of dry weight dry
MetalOf(s, dry) ==
    [pb_ton |-> RMul(dry, RDiv(s.pb_grade_pct, RInt(100))),
     zn_ton |-> RMul(dry, RDiv(s.zn_grade_pct, RInt(100))),
     ag_kg  |-> RDiv(RMul(dry, s.ag_grade_gpt), RInt(1000))]

\* a mutation of calculate_metrics: the moisture is not taken off the wet weight
calculate_metrics_wet(s) ==
    Eval({ [s EXCEPT !.dry_weight_ton = dry, !.metal_content = MetalOf(s, dry)] :
           dry \in {s.wet_weight_ton} })

\* a mutation of calculate_metrics: the dry weight is added to the dry
\* weight the stream already holds
calculate_metrics_accumulating(s) ==
    Eval({ [s EXCEPT !.dry_weight_ton = dry, !.metal_content = MetalOf(s, dry)] :
           dry \in {RSub(s.dry_weight_ton,
                         RSub(RInt(0),
                              RMul(s.wet_weight_ton,
                                   RSub(RInt(1), RDiv(s.moisture_pct, RInt(100))))))} })

\* a mutation of calculate_metrics: the dry weight is stored over the wet
\* weight as well
calculate_metrics_dried(s) ==
    Eval({ [s EXCEPT !.wet_weight_ton = dry, !.dry_weight_ton = dry,
                     !.metal_content = MetalOf(s, dry)] :
           dry \in {RMul(s.wet_weight_ton,
                         RSub(RInt(1), RDiv(s.moisture_pct, RInt(100))))} })

calculate_metrics(s) ==
    Eval({ [s EXCEPT !.dry_weight_ton = dry, !.metal_content = MetalOf(s, dry)] :
           dry \in {RMul(s.wet_weight_ton,
                         RSub(RInt(1), RDiv(s.moisture_pct, RInt(100))))} })

\* a mutation of the guards: ">= 0" where the code has "> 0"
GuardNonNegative(x) == RNonNeg(x)

\* the "> 0" guard in front of each division
Guard(x) == RPos(x)

\* One guarded assignment "if den > 0: perf.field = num / den * scale".  st is
\* the performance record so far and whether an exception is in flight: a
\* division by zero raises ZeroDivisionError and the rest of the method is
\* not run.
GuardedRatio(st0, field, guarded, num, den, scale) ==
    Eval({ IF st.raised \/ ~Guard(guarded) THEN st
           ELSE IF RZero(den) THEN [st EXCEPT !.raised = TRUE]
           ELSE [st EXCEPT !.perf[field] = RMul(RDiv(num, den), scale)] :
           st \in {st0} })

\* lines 68-84 of calculate_performance, on the calculated streams
Performance(perf, raw, conc) ==
    LET rm   == raw.metal_content
        cm   == conc.metal_content
        st0  == [perf |-> perf, raised |-> FALSE]
        st1  == GuardedRatio(st0, "yield_pct", raw.dry_weight_ton,
                             conc.dry_weight_ton, raw.dry_weight_ton, RInt(100))
        st2  == GuardedRatio(st1, "recovery_pb_pct", rm.pb_ton,
                             cm.pb_ton, rm.pb_ton, RInt(100))
        st3  == GuardedRatio(st2, "recovery_zn_pct", rm.zn_ton,
                             cm.zn_ton, rm.zn_ton, RInt(100))
        st4  == GuardedRatio(st3, "recovery_ag_pct", rm.ag_kg,
                             cm.ag_kg, rm.ag_kg, RInt(100))
        st5  == GuardedRatio(st4, "enrichment_ratio_pb", raw.pb_grade_pct,
                             conc.pb_grade_pct, raw.pb_grade_pct, RInt(1))
    IN  IF Guard(raw.dry_weight_ton) THEN st5 ELSE st0

\* the record and the outcome a call leaves behind
Calculated(e, raw, conc, st0) ==
    Eval({ [entry  |-> [e EXCEPT !.raw_ore = raw, !.concentrate = conc,
                                 !.performance = st.perf],
            raised |-> st.raised] : st \in {st0} })

calculate_performance(e) ==
    Eval({ Calculated(e, raw, conc, Performance(e.performance, raw, conc)) :
           raw  \in {calculate_metrics(e.raw_ore)},
           conc \in {calculate_metrics(e.concentrate)} })

(***************************************************************************)
(* import_accounting.py: the date of a report, from its file name          *)
(***************************************************************************)
DefaultYear == 2025

TypoYear == 2026

\* r'(\d{4})(\d{2})(\d{2})'
LongDatePattern == <<Rep("d", 4, 4, TRUE), Rep("d", 2, 2, TRUE), Rep("d", 2, 2, TRUE)>>

\* r'(\d+)\.(\d+)'
ShortDatePattern == <<Rep("d", 1, Unbounded, TRUE), Lit("."), Rep("d", 1, Unbounded, TRUE)>>

Dash == <<"-">>

\* a mutation of FixTypo: 2006 is rewritten whatever the directory is called
FixTypoAnywhere(y, year) ==
    IF y = <<"2", "0", "0", "6">> THEN <<"2", "0", "2", "6">> ELSE y

\* if y == "2006" and year == 2026: y = "2026"
FixTypo(y, year) ==
    IF y = <<"2", "0", "0", "6">> /\ year = TypoYear THEN <<"2", "0", "2", "6">> ELSE y

\* the default year, or 2026 under a directory whose name holds "2026"
YearOfDir(parent_dir) ==
    IF Contains(parent_dir, StrOf(TypoYear)) THEN TypoYear ELSE DefaultYear

\* the short form, tried when the long one did not match
ShortDate(filename, year) ==
    Eval({ IF ms = <<>> THEN <<>>
           ELSE StrOf(year) \o Dash \o Fmt02(IntOf(ms[1][1])) \o Dash
                \o Fmt02(IntOf(ms[1][2])) :
           ms \in {re_search(ShortDatePattern, filename)} })

\* get_date_from_filename(filepath) for a file called filename in a directory
\* called parent_dir: the date as text, or <<>> for None
get_date_from_filename(parent_dir, filename) ==
    Eval({ IF ml # <<>>
           THEN FixTypo(ml[1][1], YearOfDir(parent_dir)) \o Dash \o ml[1][2]
                \o Dash \o ml[1][3]
           ELSE ShortDate(filename, YearOfDir(parent_dir)) :
           ml \in {re_search(LongDatePattern, filename)} })

(***************************************************************************)
(* import_august.py: the date and the shift of a report, from its header   *)
(***************************************************************************)
\* "zao ban" is the morning shift, "zhong ban" the mid shift, "wan ban" the
\* night shift
SHIFT_MAP ==
    [code \in {<<"1">>, <<"2">>, <<"3">>} |->
        IF code = <<"1">> THEN "zao ban"
        ELSE IF code = <<"2">> THEN "zhong ban"
        ELSE "wan ban"]

\* SHIFT_MAP.get(shift_code, "zao ban")
ShiftOf(shift_code) ==
    IF shift_code \in DOMAIN SHIFT_MAP THEN SHIFT_MAP[shift_code] ELSE "zao ban"

\* r'(\d+)\s*nian\s*(\d+)\s*yue\s*(\d+)\s*ri.*lparen\s*(\d+)\s*ban zu'
HeaderPattern ==
    <<Rep("d", 1, Unbounded, TRUE), Rep("s", 0, Unbounded, FALSE), Lit("nian"),
      Rep("s", 0, Unbounded, FALSE), Rep("d", 1, Unbounded, TRUE),
      Rep("s", 0, Unbounded, FALSE), Lit("yue"),
      Rep("s", 0, Unbounded, FALSE), Rep("d", 1, Unbounded, TRUE),
      Rep("s", 0, Unbounded, FALSE), Lit("ri"),
      Rep(".", 0, Unbounded, FALSE), Lit("lparen"),
      Rep("s", 0, Unbounded, FALSE), Rep("d", 1, Unbounded, TRUE),
      Rep("s", 0, Unbounded, FALSE), Lit("ban"), Lit("zu")>>

\* lines 29-39 of parse_file: <<>> when the header does not match, else
\* <<[shift_date, shift_type]>>
parse_header(header_text) ==
    Eval({ IF m = <<>> THEN <<>>
           ELSE <<[shift_date |-> m[1][1] \o Dash \o Fmt02(IntOf(m[1][2])) \o Dash
                                  \o Fmt02(IntOf(m[1][3])),
                   shift_type |-> ShiftOf(m[1][4])]>> :
           m \in {re_search(HeaderPattern, header_text)} })

(***************************************************************************)
(* Sheets.  A cell holds a number, nothing, or text; pandas reads an empty *)
(* cell as NaN.  A float is a number or NaN.  A grid df has nrows rows and *)
(* ncols columns, indexed from 0; cells names the cells it holds one by    *)
(* one, and every other cell of the grid is a copy of fill.                *)
(***************************************************************************)
Num(v) == [nan |-> FALSE, v |-> v]

NaN == [nan |-> TRUE, v |-> 0]

NumCell(v) == [k |-> "num", v |-> v, s |-> <<>>]

EmptyCell == [k |-> "empty", v |-> 0, s |-> <<>>]

TextCell(s) == [k |-> "text", v |-> 0, s |-> s]

\* x <= 0 on floats: False when x is NaN
LeqZero(x) == ~x.nan /\ x.v <= 0

\* df.iloc[r, c]: <<>> for IndexError, else <<the cell>>
iloc(df, r, c) ==
    IF r >= df.nrows \/ c >= df.ncols THEN <<>>
    ELSE IF <<r, c>> \in DOMAIN df.cells THEN <<df.cells[<<r, c>>]>>
    ELSE <<df.fill>>

\* pd.notnull(val)
notnull(val) == val.k # "empty"

\* float(val): <<>> for ValueError, else <<the float>>.  Text of digits is
\* the number it spells, the text "NAN" is NaN as "nan" is in any case, and
\* other text is no number.
float(val) ==
    IF val.k = "num" THEN <<Num(val.v)>>
    ELSE IF val.k = "empty" THEN <<NaN>>
    ELSE IF val.s # <<>> /\ \A i \in 1..Len(val.s) : IsDigit(val.s[i])
    THEN <<Num(IntOf(val.s))>>
    ELSE IF val.s = <<"N", "A", "N">> THEN <<NaN>>
    ELSE <<>>

\* str(val) for a header cell
str(val) ==
    IF val.k = "text" THEN val.s
    ELSE IF val.k = "empty" THEN <<"n", "a", "n">>
    ELSE (IF val.v < 0 THEN <<"-">> ELSE <<>>) \o StrOf(Abs(val.v)) \o <<".", "0">>

(***************************************************************************)
(* import_accounting.py: three shifts side by side on one sheet            *)
(***************************************************************************)
\* "jia ban", "yi ban" and "bing ban" are the names of the three shifts
SHIFTS ==
    <<[name |-> "jia ban", col_start |-> 1],
      [name |-> "yi ban", col_start |-> 5],
      [name |-> "bing ban", col_start |-> 9]>>

\* get_cell(r, c): any exception gives 0.0
get_cell(df, r, c) ==
    IF iloc(df, r, c) = <<>> THEN Num(0)
    ELSE IF ~notnull(iloc(df, r, c)[1]) THEN Num(0)
    ELSE IF float(iloc(df, r, c)[1]) = <<>> THEN Num(0)
    ELSE float(iloc(df, r, c)[1])[1]

\* if raw_pb <= 0: continue
Absent(raw_pb) == LeqZero(raw_pb)

\* the payload of one shift, lines 77-115
AccountingPayload(df, date_str, shift, raw_pb) ==
    [shiftDate   |-> date_str,
     shiftType   |-> shift.name,
     runTime     |-> get_cell(df, 4, shift.col_start + 3),
     rawOre      |-> [wetWeight |-> get_cell(df, 5, shift.col_start + 3),
                      moisture  |-> get_cell(df, 7, shift.col_start + 3),
                      pbGrade   |-> raw_pb,
                      znGrade   |-> Num(0),
                      agGrade   |-> get_cell(df, 4, shift.col_start + 1)],
     concentrate |-> [pbGrade |-> get_cell(df, 5, shift.col_start),
                      znGrade |-> Num(0),
                      agGrade |-> get_cell(df, 5, shift.col_start + 1)],
     tailings    |-> [pbGrade  |-> get_cell(df, 6, shift.col_start),
                      znGrade  |-> Num(0),
                      agGrade  |-> get_cell(df, 6, shift.col_start + 1),
                      fineness |-> get_cell(df, 6, shift.col_start + 3)]]

\* one turn of "for shift in SHIFTS": the payloads handed to requests.post
ShiftBlock(df, date_str, shift) ==
    Eval({ IF Absent(raw_pb) THEN <<>>
           ELSE <<AccountingPayload(df, date_str, shift, raw_pb)>> :
           raw_pb \in {get_cell(df, 4, shift.col_start)} })

RECURSIVE ShiftLoop(_, _, _)
ShiftLoop(df, date_str, k) ==
    IF k > Len(SHIFTS) THEN <<>>
    ELSE ShiftBlock(df, date_str, SHIFTS[k]) \o ShiftLoop(df, date_str, k + 1)

\* what a run of parse_file leaves behind: the payloads handed on, what was
\* printed about the file, and whether an exception left the function
Outcome(records, diag, exc) ==
    [records |-> records, diag |-> diag, raised |-> exc]

\* the body of the try of parse_file; raised stands for an exception
\* reaching the except clause
AccountingTry(file) ==
    IF ~file.readable THEN Outcome(<<>>, <<>>, TRUE)
    ELSE Eval({ IF date_str = <<>>
                THEN Outcome(<<>>, <<"Skipping: Could not determine date">>, FALSE)
                ELSE Outcome(ShiftLoop(file.df, date_str, 1), <<>>, FALSE) :
                date_str \in {get_date_from_filename(file.dir, file.name)} })

\* a mutation of Except: no except clause, the exception leaves parse_file
NoExcept(o) == o

\* except Exception as e: print(f"Error parsing ...")
Except(o) ==
    IF o.raised THEN Outcome(o.records, Append(o.diag, "Error parsing"), FALSE)
    ELSE o

\* import_accounting.parse_file(filepath)
accounting_parse_file(file) == Except(AccountingTry(file))

(***************************************************************************)
(* import_august.py: one shift a file                                      *)
(***************************************************************************)
\* get_val(row, col): <<>> when df.iloc raises IndexError, which is outside
\* the try; else <<the float>>
get_val(df, row, col) ==
    IF iloc(df, row, col) = <<>> THEN <<>>
    ELSE IF float(iloc(df, row, col)[1]) = <<>> THEN <<Num(0)>>
    ELSE float(iloc(df, row, col)[1])

\* the cells read by lines 54-64, in the order read
AugustCells ==
    <<<<4, 1>>, <<4, 2>>, <<4, 3>>, <<5, 1>>, <<5, 2>>, <<5, 3>>,
      <<6, 1>>, <<6, 2>>, <<6, 3>>>>

\* the payload, lines 66-88; v holds the nine values read
AugustPayload(h, v) ==
    [shiftDate   |-> h.shift_date,
     shiftType   |-> h.shift_type,
     runTime     |-> Num(8),
     rawOre      |-> [wetWeight |-> Num(0), moisture |-> Num(0),
                      pbGrade |-> v[1][1], znGrade |-> v[2][1], agGrade |-> v[3][1]],
     concentrate |-> [pbGrade |-> v[4][1], znGrade |-> v[5][1], agGrade |-> v[6][1]],
     tailings    |-> [pbGrade |-> v[7][1], znGrade |-> v[8][1], agGrade |-> v[9][1],
                      fineness |-> Num(0)]]

\* lines 54-90, once the header is parsed
AugustGrades(df, h) ==
    Eval({ IF \E i \in 1..Len(v) : v[i] = <<>>
           THEN Outcome(<<>>, <<>>, TRUE)
           ELSE Outcome(<<AugustPayload(h, v)>>, <<>>, FALSE) :
           v \in {[i \in 1..Len(AugustCells) |->
                      get_val(df, AugustCells[i][1], AugustCells[i][2])]} })

\* lines 29-90, on the header cell
AugustHeader(df, cell) ==
    Eval({ IF h = <<>>
           THEN Outcome(<<>>, <<"Skipping: Could not parse date/shift">>, FALSE)
           ELSE AugustGrades(df, h[1]) :
           h \in {parse_header(str(cell))} })

\* the body of the try of parse_file
AugustTry(file) ==
    IF ~file.readable THEN Outcome(<<>>, <<>>, TRUE)
    ELSE IF iloc(file.df, 1, 0) = <<>> THEN Outcome(<<>>, <<>>, TRUE)
    ELSE AugustHeader(file.df, iloc(file.df, 1, 0)[1])

\* import_august.parse_file(file_path): the payload returned is the record
august_parse_file(file) == Except(AugustTry(file))

\* main: if "~$" in file_path: continue
IsTempFile(file) == Contains(file.name, <<"~", "$">>)

(***************************************************************************)
(* The texts the resolvers are run on                                      *)
(***************************************************************************)
Xlsx == <<".", "x", "l", "s", "x">>

Stems == { <<"he", "suan", "biao">>, <<>> }

Years == { <<"2", "0", "0", "6">>, <<"2", "0", "2", "6">>, <<"2", "0", "2", "5">> }

\* YYYYMMDD, with months and days in and out of the calendar
LongForms ==
    { y \o m \o d : y \in Years,
                    m \in { <<"0", "1">>, <<"1", "3">> },
                    d \in { <<"2", "7">>, <<"4", "5">> } }

\* M.D and MM.DD
ShortForms ==
    { m \o <<".">> \o d : m \in { <<"8">>, <<"0", "9">>, <<"1", "3">> },
                          d \in { <<"1", "9">>, <<"1">>, <<"0", "1">>, <<"3", "2">> } }

\* a dotted full date, a short date in front of a long one, a run of nine
\* digits, and no date at all
OtherForms ==
    { <<"2", "0", "2", "5", ".", "0", "6", ".", "2", "8">>,
      <<"8", ".", "1", "9", "-", "2", "0", "0", "6", "0", "1", "2", "7">>,
      <<"1", "2", "0", "2", "6", "0", "1", "2", "7">>,
      <<"b", "a", "k">>,
      <<>> }

FileNames ==
    { stem \o form \o Xlsx :
        stem \in Stems, form \in LongForms \cup ShortForms \cup OtherForms }

\* "2026 nian 1 yue", "8 yue", "2024 nian", "2025 nian"
ParentDirs ==
    { <<"2", "0", "2", "6", "nian", "1", "yue">>,
      <<"8", "yue">>,
      <<"2", "0", "2", "4", "nian">>,
      <<"2", "0", "2", "5", "nian">> }

NoParts == [year |-> <<>>, month |-> <<>>, day |-> <<>>, code |-> <<>>]

FileSources ==
    { [kind |-> "filename", dir |-> d, text |-> f, parts |-> NoParts] :
        d \in ParentDirs, f \in FileNames }

\* "bao gao ri qi: <year> nian <month> yue <day> ri   (<code> ban zu)" with
\* or without blanks around the numbers
HeaderText(p, sp) ==
    <<"bao", "gao", "ri", "qi", ":">> \o sp \o p.year \o sp \o <<"nian">> \o sp
    \o p.month \o sp \o <<"yue">> \o sp \o p.day \o sp \o <<"ri">> \o sp \o sp
    \o <<"lparen">> \o sp \o p.code \o sp \o <<"ban", "zu", "rparen">>

HeaderParts ==
    [year  : { <<"2", "0", "2", "5">>, <<"2", "5">>, <<"2", "0", "2", "5", "0">> },
     month : { <<"8">>, <<"0", "8">>, <<"1", "3">> },
     day   : { <<"1", "9">>, <<"9">>, <<"3", "2">> },
     code  : { <<"1">>, <<"2">>, <<"3">>, <<"0", "2">>, <<"4">>, <<"0">> }]

\* an empty cell read as text, a header without the shift, a header whose
\* shift is not a number, and no text at all
BrokenHeaders ==
    { <<"n", "a", "n">>,
      <<"2", "0", "2", "5", "nian", "8", "yue", "1", "9", "ri">>,
      <<"2", "0", "2", "5", "nian", "8", "yue", "1", "9", "ri", "lparen", "jia",
        "ban", "zu", "rparen">>,
      <<>> }

HeaderSources ==
    { [kind |-> "header", dir |-> <<>>, text |-> HeaderText(p, sp), parts |-> p] :
        p \in HeaderParts, sp \in { <<>>, <<" ">> } }
    \cup
    { [kind |-> "header", dir |-> <<>>, text |-> h, parts |-> NoParts] :
        h \in BrokenHeaders }

NoResult == [state |-> "pending", shift_date |-> <<>>, shift_type |-> ""]

\* the state of the importers while another program is run
IdleImport ==
    /\ script = "none"
    /\ batch = <<>>
    /\ next = 1
    /\ log = <<>>
    /\ crashed = FALSE

\* the state of the resolvers while another program is run
IdleDate ==
    /\ source = [kind |-> "none", dir |-> <<>>, text |-> <<>>, parts |-> NoParts]
    /\ resolved = NoResult

\* date_str = get_date_from_filename(filepath)
ResolveFilename ==
    /\ source.kind = "filename"
    /\ resolved.state = "pending"
    /\ \E date \in {get_date_from_filename(source.dir, source.text)} :
           resolved' = [state |-> IF date = <<>> THEN "none" ELSE "date",
                        shift_date |-> date, shift_type |-> ""]
    /\ UNCHANGED <<source, calcVars, importVars>>

\* match = re.search(...) and what follows it, on header_text
ResolveHeader ==
    /\ source.kind = "header"
    /\ resolved.state = "pending"
    /\ \E r \in {parse_header(source.text)} :
           resolved' = IF r = <<>>
                       THEN [state |-> "none", shift_date |-> <<>>, shift_type |-> ""]
                       ELSE [state |-> "date", shift_date |-> r[1].shift_date,
                             shift_type |-> r[1].shift_type]
    /\ UNCHANGED <<source, calcVars, importVars>>

(***************************************************************************)
(* The shift records the calculator is run on                              *)
(***************************************************************************)
MaxCalls == 2

\* n / 10^k
Dec(n, k) == [neg |-> n < 0, n |-> BFromInt(Abs(n)), d |-> BPow10(k)]

\* the "yi ban" sheet row of the verification block first, then zero and
\* out-of-range variations of each measurement
RawStreams ==
    { ProcessStream(w, m, pb, zn, ag) :
        w  \in {RInt(128), RInt(0)},
        m  \in {RInt(3), RInt(100), RInt(150)},
        pb \in {Dec(375, 2), RInt(0)},
        zn \in {RInt(0), RInt(2)},
        ag \in {RInt(161), RInt(0)} }

ConcStreams ==
    { ProcessStream(w, m, pb, zn, ag) :
        w  \in {Dec(6899896, 6), RInt(0)},
        m  \in {RInt(0), RInt(150)},
        pb \in {Dec(6527, 2), RInt(0)},
        zn \in {RInt(0), RInt(50)},
        ag \in {RInt(3352), RInt(0)} }

TailStreams ==
    { ProcessStream(RInt(121), RInt(3), Dec(13, 2), RInt(0), RInt(8)),
      ProcessStream(RInt(0), RInt(0), RInt(0), RInt(0), RInt(0)) }

NewEntries ==
    { WorkshopShiftEntry("yi ban", raw, conc, tail) :
        raw \in RawStreams, conc \in ConcStreams,
        tail \in {<<>>} \cup { <<t>> : t \in TailStreams } }

\* the state of the calculator while another program is run
IdleCalc ==
    /\ entry = WorkshopShiftEntry("", ProcessStream(RInt(0), RInt(0), RInt(0), RInt(0), RInt(0)),
                                  ProcessStream(RInt(0), RInt(0), RInt(0), RInt(0), RInt(0)), <<>>)
    /\ calls = 0
    /\ raised = FALSE
    /\ edits = 0

InitCalc ==
    /\ entry \in NewEntries
    /\ calls = 0
    /\ raised = FALSE
    /\ edits = 0
    /\ IdleDate
    /\ IdleImport

\* entry.calculate_performance()
CalculatePerformance ==
    /\ calls < MaxCalls
    /\ ~raised
    /\ \E r \in {calculate_performance(entry)} :
           /\ entry' = r.entry
           /\ raised' = r.raised
    /\ calls' = calls + 1
    /\ UNCHANGED <<edits, dateVars, importVars>>

NextCalc == CalculatePerformance

SpecCalc == InitCalc /\ [][NextCalc]_vars

MaxEdits == 2

\* the measured fields of a ProcessStream
Measurements ==
    {"wet_weight_ton", "moisture_pct", "pb_grade_pct", "zn_grade_pct", "ag_grade_gpt"}

\* the raw ore and the concentrate of the verification block
ReferenceRaw == ProcessStream(RInt(128), RInt(3), Dec(375, 2), RInt(0), RInt(161))

ReferenceConc == ProcessStream(Dec(6899896, 6), RInt(0), Dec(6527, 2), RInt(0), RInt(3352))

\* the records whose measurements are changed between calls: the entry of
\* the verification block, without tailings and with
EditedEntries ==
    { WorkshopShiftEntry("yi ban", ReferenceRaw, ReferenceConc, tail) :
        tail \in { <<>>,
                   <<ProcessStream(RInt(121), RInt(3), Dec(13, 2), RInt(0), RInt(8))>> } }

InitEdit ==
    /\ entry \in EditedEntries
    /\ calls = 0
    /\ raised = FALSE
    /\ edits = 0
    /\ IdleDate
    /\ IdleImport

\* entry.raw_ore.<field> = <value>: a measurement of the raw ore is given
\* another of its values
SetRawOre ==
    /\ edits < MaxEdits
    /\ ~raised
    /\ \E t \in RawStreams, f \in Measurements :
           /\ entry.raw_ore[f] # t[f]
           /\ entry' = [entry EXCEPT !.raw_ore[f] = t[f]]
    /\ edits' = edits + 1
    /\ UNCHANGED <<calls, raised, dateVars, importVars>>

\* entry.concentrate.<field> = <value>
SetConcentrate ==
    /\ edits < MaxEdits
    /\ ~raised
    /\ \E t \in ConcStreams, f \in Measurements :
           /\ entry.concentrate[f] # t[f]
           /\ entry' = [entry EXCEPT !.concentrate[f] = t[f]]
    /\ edits' = edits + 1
    /\ UNCHANGED <<calls, raised, dateVars, importVars>>

NextEdit == CalculatePerformance \/ SetRawOre \/ SetConcentrate

SpecEdit == InitEdit /\ [][NextEdit]_vars

InitDate ==
    /\ source \in FileSources \cup HeaderSources
    /\ resolved = NoResult
    /\ IdleCalc
    /\ IdleImport

NextDate == ResolveFilename \/ ResolveHeader

SpecDate == InitDate /\ [][NextDate]_vars

(***************************************************************************)
(* The files the importers are run on                                      *)
(***************************************************************************)
MaxFiles == 3

Slash == <<"/">>

\* what the raw-ore lead grade cell of a block may hold: a grade, zero, a
\* negative number, nothing, a stroke, a grade typed as text, and "NAN"
GradeCells ==
    { NumCell(3), NumCell(0), NumCell(-1), EmptyCell, TextCell(Slash),
      TextCell(<<"5">>), TextCell(<<"N", "A", "N">>) }

FillCells == { NumCell(2), EmptyCell, TextCell(Slash) }

Grid(nrows, ncols, cells, fill) ==
    [nrows |-> nrows, ncols |-> ncols, cells |-> cells, fill |-> fill]

\* a sheet of three shift blocks, with given raw-ore lead grade cells
AccountingGrid(dims, pb1, pb2, pb3, fill) ==
    Grid(dims[1], dims[2],
         (<<4, 1>> :> pb1) @@ (<<4, 5>> :> pb2) @@ (<<4, 9>> :> pb3), fill)

File(dir, name, readable, df) ==
    [dir |-> dir, name |-> name, readable |-> readable, df |-> df]

Name819 == <<"he", "suan", "biao", "8", ".", "1", "9">> \o Xlsx

Dir8 == <<"8", "yue">>

\* one sheet at a time: every combination of lead grade cells, on full
\* sheets and on sheets cut short of the later blocks or rows
AccountingSheets ==
    { File(Dir8, Name819, TRUE, AccountingGrid(dims, pb1, pb2, pb3, fill)) :
        dims \in { <<8, 13>>, <<8, 11>>, <<8, 9>>, <<5, 13>> },
        pb1 \in GradeCells, pb2 \in GradeCells, pb3 \in GradeCells,
        fill \in FillCells }

GoodHeader(code) ==
    TextCell(HeaderText([year |-> <<"2", "0", "2", "5">>, month |-> <<"8">>,
                         day |-> <<"1", "9">>, code |-> code], <<" ">>))

NameAug == <<"8", "yue", "1", "9", "ri">> \o Xlsx

AugustGrid(dims, header, pb, fill) ==
    Grid(dims[1], dims[2], (<<1, 0>> :> header) @@ (<<4, 1>> :> pb), fill)

AugustSheets ==
    { File(Dir8, NameAug, TRUE, AugustGrid(dims, header, pb, fill)) :
        dims \in { <<8, 4>>, <<8, 3>>, <<6, 4>>, <<1, 4>> },
        header \in { GoodHeader(<<"2">>), GoodHeader(<<"0", "2">>),
                     TextCell(<<"bao", "gao">>), EmptyCell },
        pb \in GradeCells,
        fill \in FillCells }

\* batches: a good sheet, a name without a date, a file that cannot be
\* read, and a full date with the 2006 typo
AccountingBatchFiles ==
    { File(Dir8, Name819, TRUE,
           AccountingGrid(<<8, 13>>, NumCell(3), NumCell(0), NumCell(3), NumCell(2))),
      File(Dir8, <<"he", "suan", "biao">> \o Xlsx, TRUE,
           AccountingGrid(<<8, 13>>, NumCell(3), NumCell(3), NumCell(3), NumCell(2))),
      File(Dir8, Name819, FALSE,
           AccountingGrid(<<8, 13>>, NumCell(3), NumCell(3), NumCell(3), NumCell(2))),
      File(<<"2", "0", "2", "6", "nian", "1", "yue">>,
           <<"he", "suan", "biao", "2", "0", "0", "6", "0", "1", "2", "7">> \o Xlsx, TRUE,
           AccountingGrid(<<8, 13>>, NumCell(0), NumCell(3), NumCell(0), NumCell(2))) }

\* batches: a good sheet, a header that does not parse, a file that cannot
\* be read, a sheet without its last column, and a lock file
AugustBatchFiles ==
    { File(Dir8, NameAug, TRUE,
           AugustGrid(<<8, 4>>, GoodHeader(<<"2">>), NumCell(3), NumCell(2))),
      File(Dir8, NameAug, TRUE,
           AugustGrid(<<8, 4>>, TextCell(<<"bao", "gao">>), NumCell(3), NumCell(2))),
      File(Dir8, NameAug, FALSE,
           AugustGrid(<<8, 4>>, GoodHeader(<<"2">>), NumCell(3), NumCell(2))),
      File(Dir8, NameAug, TRUE,
           AugustGrid(<<8, 3>>, GoodHeader(<<"3">>), NumCell(3), NumCell(2))),
      File(Dir8, <<"~", "$">> \o NameAug, TRUE,
           AugustGrid(<<8, 4>>, GoodHeader(<<"1">>), NumCell(3), NumCell(2))) }

\* the sequences of 1 to n elements of S
Batches(S, n) == UNION { [1..k -> S] : k \in 1..n }

Started ==
    /\ next = 1
    /\ log = <<>>
    /\ crashed = FALSE
    /\ IdleCalc
    /\ IdleDate

\* one sheet
InitSheet ==
    /\ \/ script = "accounting" /\ batch \in { <<f>> : f \in AccountingSheets }
       \/ script = "august" /\ batch \in { <<f>> : f \in AugustSheets }
    /\ Started

\* a folder of files
InitBatch ==
    /\ \/ script = "accounting" /\ batch \in Batches(AccountingBatchFiles, MaxFiles)
       \/ script = "august" /\ batch \in Batches(AugustBatchFiles, MaxFiles)
    /\ Started

\* what main does with the outcome of a parse_file: an exception leaving
\* parse_file leaves main too, and the files after it are not processed
Logged(o) ==
    IF o.raised
    THEN /\ crashed' = TRUE
         /\ UNCHANGED <<next, log>>
    ELSE /\ log' = Append(log, [records |-> o.records, diag |-> o.diag])
         /\ next' = next + 1
         /\ UNCHANGED crashed

\* import_accounting.main: one turn of "for f in files: parse_file(f)"
AccountingFile ==
    /\ script = "accounting"
    /\ ~crashed
    /\ next <= Len(batch)
    /\ \E o \in {accounting_parse_file(batch[next])} : Logged(o)
    /\ UNCHANGED <<script, batch, calcVars, dateVars>>

\* import_august.main: one turn of "for file_path in files"; the payload
\* parse_file returns is uploaded
AugustFile ==
    /\ script = "august"
    /\ ~crashed
    /\ next <= Len(batch)
    /\ IF IsTempFile(batch[next])
       THEN Logged(Outcome(<<>>, <<>>, FALSE))
       ELSE \E o \in {august_parse_file(batch[next])} : Logged(o)
    /\ UNCHANGED <<script, batch, calcVars, dateVars>>

NextImport == AccountingFile \/ AugustFile

SpecSheet == InitSheet /\ [][NextImport]_vars

\* the loop over the files is being run
Running == ~crashed /\ next <= Len(batch)

\* the loop runs on as long as there is a file left: weak fairness of
\* NextImport, which is enabled exactly when Running
SpecBatch ==
    /\ InitBatch
    /\ [][NextImport]_vars
    /\ (<>[]Running => []<><<NextImport>>_vars)

(***************************************************************************)
(* Properties of the balance calculator                                    *)
(***************************************************************************)
Streams(e) ==
    {e.raw_ore, e.concentrate} \cup { e.tailings[i] : i \in DOMAIN e.tailings }

\* the stream relations of the data model, written as the data model writes them
Balanced(s) ==
    LET dry == s.dry_weight_ton
    IN  /\ REq(dry, RMul(s.wet_weight_ton,
                         RSub(RInt(1), RDiv(s.moisture_pct, RInt(100)))))
        /\ REq(s.metal_content.pb_ton, RDiv(RMul(dry, s.pb_grade_pct), RInt(100)))
        /\ REq(s.metal_content.zn_ton, RDiv(RMul(dry, s.zn_grade_pct), RInt(100)))
        /\ REq(s.metal_content.ag_kg, RDiv(RMul(dry, s.ag_grade_gpt), RInt(1000)))

\* C1: after calculate_performance has run, every stream of the record (raw
\* ore, concentrate, and the tailings when present) satisfies
\* dry = wet * (1 - moisture/100), pbTon = dry * pb/100, znTon = dry * zn/100
\* and agKg = dry * ag/1000.
C1_EveryStreamBalanced ==
    calls >= 1 => \A s \in Streams(entry) : Balanced(s)

Metrics(e) ==
    { e.performance[f] : f \in DOMAIN e.performance }

MoistureInRange(e) ==
    \A s \in {e.raw_ore, e.concentrate} :
        RNonNeg(s.moisture_pct) /\ RLeqNonNeg(s.moisture_pct, RInt(100))

ZeroDenominatorsGiveZero(e) ==
    LET p  == e.performance
        rm == e.raw_ore.metal_content
    IN  /\ RZero(e.raw_ore.dry_weight_ton) => \A x \in Metrics(e) : RZero(x)
        /\ RZero(rm.pb_ton) => RZero(p.recovery_pb_pct)
        /\ RZero(rm.zn_ton) => RZero(p.recovery_zn_pct)
        /\ RZero(rm.ag_kg) => RZero(p.recovery_ag_pct)
        /\ RZero(e.raw_ore.pb_grade_pct) => RZero(p.enrichment_ratio_pb)

\* C2 as stated: after the first calculate_performance on a newly built
\* record with nonnegative inputs, zero raw-ore denominators give metrics of
\* exactly 0, no metric is negative and no division by zero occurs.
C2_GuardedMetrics ==
    calls = 1 =>
        /\ ZeroDenominatorsGiveZero(entry)
        /\ \A x \in Metrics(entry) : RNonNeg(x)
        /\ ~raised

\* C2 as amended: the same, for records whose raw-ore and concentrate
\* moisture lies in 0..100.
C2_GuardedMetricsInRange ==
    (calls = 1 /\ MoistureInRange(entry)) =>
        /\ ZeroDenominatorsGiveZero(entry)
        /\ \A x \in Metrics(entry) : RNonNeg(x)
        /\ ~raised

\* the raw ore holds no lead although the concentrate does and the yield is
\* positive: the lead recovery stayed 0
C2_Witness ==
    /\ calls = 1
    /\ MoistureInRange(entry)
    /\ RPos(entry.performance.yield_pct)
    /\ RZero(entry.raw_ore.metal_content.pb_ton)
    /\ RPos(entry.concentrate.metal_content.pb_ton)
    /\ RZero(entry.performance.recovery_pb_pct)
    /\ RPos(entry.performance.recovery_ag_pct)

\* the raw ore and the concentrate of the verification block
IsReference(e) ==
    /\ REq(e.raw_ore.wet_weight_ton, RInt(128))
    /\ REq(e.raw_ore.moisture_pct, RInt(3))
    /\ REq(e.raw_ore.pb_grade_pct, Dec(375, 2))
    /\ REq(e.raw_ore.ag_grade_gpt, RInt(161))
    /\ REq(e.concentrate.wet_weight_ton, Dec(6899896, 6))
    /\ REq(e.concentrate.moisture_pct, RInt(0))
    /\ REq(e.concentrate.pb_grade_pct, Dec(6527, 2))

DerivedOfStream(s) ==
    <<s.dry_weight_ton, s.metal_content.pb_ton, s.metal_content.zn_ton,
      s.metal_content.ag_kg>>

MetricsOf(e) ==
    <<e.performance.yield_pct, e.performance.recovery_pb_pct,
      e.performance.recovery_zn_pct, e.performance.recovery_ag_pct,
      e.performance.enrichment_ratio_pb>>

Derived(e) ==
    DerivedOfStream(e.raw_ore) \o DerivedOfStream(e.concentrate)
    \o (IF e.tailings = <<>> THEN <<>> ELSE DerivedOfStream(e.tailings[1]))
    \o MetricsOf(e)

\* two lists of numbers hold the same values
SameNumbers(a, b) ==
    /\ Len(a) = Len(b)
    /\ \A i \in 1..Len(a) : REq(a[i], b[i])

\* C11: a call of calculate_performance that follows another call, with no
\* measurement changed in between, leaves every derived field (dry weights,
\* metal contents, yield, recoveries, enrichment ratio) at its value.
C11_Idempotent ==
    [][(calls >= 1 /\ calls' = calls + 1) =>
           SameNumbers(Derived(entry'), Derived(entry))]_vars

\* two calls made on a record with a positive yield and lead recovery
C11_Witness ==
    /\ calls = 2
    /\ RPos(entry.raw_ore.dry_weight_ton)
    /\ RPos(entry.performance.yield_pct)
    /\ RPos(entry.performance.recovery_pb_pct)
    /\ RPos(entry.performance.enrichment_ratio_pb)

\* the measurements of a stream, and the raw inputs of a record
MeasuredOfStream(s) == [f \in Measurements |-> s[f]]

Measured(e) ==
    <<e.shift_name, MeasuredOfStream(e.raw_ore), MeasuredOfStream(e.concentrate),
      [i \in DOMAIN e.tailings |-> MeasuredOfStream(e.tailings[i])]>>

\* C12: a call of calculate_performance leaves the shift name and, for the
\* raw ore, the concentrate and the tailings, the wet weight, the moisture
\* and the three grades as they were.
C12_RawInputsKept ==
    [][calls' = calls + 1 => Measured(entry') = Measured(entry)]_vars

\* a record with tailings, recalculated after a change of a measurement:
\* its derived fields are filled in
C12_Witness ==
    /\ calls = 2
    /\ edits >= 1
    /\ entry.tailings # <<>>
    /\ RPos(entry.raw_ore.dry_weight_ton)
    /\ ~REq(entry.raw_ore.dry_weight_ton, entry.raw_ore.wet_weight_ton)
    /\ RPos(entry.performance.yield_pct)

\* a record newly built from the measurements of e
Fresh(e) ==
    WorkshopShiftEntry(
        e.shift_name,
        ProcessStream(e.raw_ore.wet_weight_ton, e.raw_ore.moisture_pct,
                      e.raw_ore.pb_grade_pct, e.raw_ore.zn_grade_pct,
                      e.raw_ore.ag_grade_gpt),
        ProcessStream(e.concentrate.wet_weight_ton, e.concentrate.moisture_pct,
                      e.concentrate.pb_grade_pct, e.concentrate.zn_grade_pct,
                      e.concentrate.ag_grade_gpt),
        e.tailings)

\* C13: whatever changes of measurements and calls came before, the metrics
\* a call of calculate_performance leaves are those a newly built record
\* with the same measurements gets from one call.
C13_NoStaleMetrics ==
    [][calls' = calls + 1 =>
           SameNumbers(MetricsOf(entry'),
                       MetricsOf(calculate_performance(Fresh(entry')).entry))]_vars

(***************************************************************************)
(* Properties of the date resolvers                                        *)
(***************************************************************************)
AllDigits(t, a, b) == \A k \in a..b : IsDigit(t[k])

\* the maximal runs of digits of a text, each as <<first, last>>
DigitRuns(t) ==
    { r \in (1..Len(t)) \X (1..Len(t)) :
        /\ r[1] <= r[2]
        /\ AllDigits(t, r[1], r[2])
        /\ (r[1] = 1 \/ ~IsDigit(t[r[1] - 1]))
        /\ (r[2] = Len(t) \/ ~IsDigit(t[r[2] + 1])) }

\* the text holds a date written as exactly eight digits
EightDigitRuns(t) == { r \in DigitRuns(t) : r[2] - r[1] = 7 }

HasLongDate(t) ==
    /\ EightDigitRuns(t) # {}
    /\ \A r \in DigitRuns(t) : r[2] - r[1] <= 7

FirstLongDate(t) ==
    CHOOSE r \in EightDigitRuns(t) : \A q \in EightDigitRuns(t) : r[1] <= q[1]

\* the text holds M.D or MM.DD and no other digits
HasShortDateOnly(t) ==
    \E r \in DigitRuns(t), q \in DigitRuns(t) :
        /\ DigitRuns(t) = {r, q}
        /\ r[2] - r[1] <= 1
        /\ q[2] - q[1] <= 1
        /\ q[1] = r[2] + 2
        /\ t[r[2] + 1] = "."

\* the 4-digit year tokens of a directory name
YearTokens(d) ==
    { SubSeq(d, r[1], r[2]) : r \in { q \in DigitRuns(d) : q[2] - q[1] = 3 } }

FilenameResolved == source.kind = "filename" /\ resolved.state # "pending"

HeaderResolved == source.kind = "header" /\ resolved.state # "pending"

\* C7: a file name holding an 8-digit date YYYYMMDD resolves to that year,
\* month and day, whatever short date it also holds; the year is rewritten
\* to 2026 exactly when it is 2006 and the directory name contains 2026.
C7_LongDateFirst ==
    (FilenameResolved /\ HasLongDate(source.text)) =>
        LET r == FirstLongDate(source.text)
            y == SubSeq(source.text, r[1], r[1] + 3)
            m == SubSeq(source.text, r[1] + 4, r[1] + 5)
            d == SubSeq(source.text, r[1] + 6, r[1] + 7)
            year == IF y = <<"2", "0", "0", "6">>
                       /\ Contains(source.dir, <<"2", "0", "2", "6">>)
                    THEN <<"2", "0", "2", "6">>
                    ELSE y
        IN  /\ resolved.state = "date"
            /\ resolved.shift_date = year \o <<"-">> \o m \o <<"-">> \o d

\* "8.19-20060127.xlsx" under "2026 nian 1 yue" resolved to 2026-01-27
C7_Witness ==
    /\ FilenameResolved
    /\ HasLongDate(source.text)
    /\ Contains(source.text, <<"8", ".", "1", "9">>)
    /\ Contains(source.text, <<"2", "0", "0", "6", "0", "1", "2", "7">>)
    /\ Contains(source.dir, <<"2", "0", "2", "6">>)
    /\ resolved.shift_date = <<"2", "0", "2", "6", "-", "0", "1", "-", "2", "7">>

\* C8: a file name holding only a short date M.D or MM.DD resolves to the
\* year 2025, unless the directory name holds a 4-digit year token, and then
\* to the year of that token, whichever year it is.
C8_DirectoryYear ==
    (FilenameResolved /\ HasShortDateOnly(source.text)) =>
        /\ resolved.state = "date"
        /\ \A y \in (IF YearTokens(source.dir) = {}
                     THEN { <<"2", "0", "2", "5">> }
                     ELSE YearTokens(source.dir)) :
               SubSeq(resolved.shift_date, 1, 4) = y

\* YYYY-MM-DD with the month in 01..12 and the day in 01..31
Canonical(t) ==
    /\ Len(t) = 10
    /\ AllDigits(t, 1, 4)
    /\ t[5] = "-"
    /\ AllDigits(t, 6, 7)
    /\ t[8] = "-"
    /\ AllDigits(t, 9, 10)
    /\ IntOf(SubSeq(t, 6, 7)) \in 1..12
    /\ IntOf(SubSeq(t, 9, 10)) \in 1..31

\* C9: a date returned by a resolver, from a file name or from a header, is
\* a canonical YYYY-MM-DD value.
C9_CanonicalDate ==
    resolved.state = "date" => Canonical(resolved.shift_date)

\* the fixed table, on the number the code is
ShiftOfNumber(n) ==
    IF n = 2 THEN "zhong ban" ELSE IF n = 3 THEN "wan ban" ELSE "zao ban"

\* C10: a header resolves to the shift its code number stands for (1 the
\* morning, 2 the mid, 3 the night shift, however the number is written, any
\* other number the morning shift) and to the year, month and day it holds.
C10_ShiftTable ==
    (HeaderResolved /\ source.parts # NoParts) =>
        /\ resolved.state = "date"
        /\ resolved.shift_type = ShiftOfNumber(IntOf(source.parts.code))
        /\ resolved.shift_date =
               source.parts.year \o <<"-">> \o Fmt02(IntOf(source.parts.month))
               \o <<"-">> \o Fmt02(IntOf(source.parts.day))

(***************************************************************************)
(* Properties of the importers                                             *)
(***************************************************************************)
Range(s) == { s[i] : i \in 1..Len(s) }

\* the files processed so far
Processed == 1..Len(log)

\* the cell holds a number greater than 0, as a number or spelled in digits
PositiveCell(df, r, c) ==
    /\ r < df.nrows
    /\ c < df.ncols
    /\ LET cell == IF <<r, c>> \in DOMAIN df.cells THEN df.cells[<<r, c>>]
                   ELSE df.fill
       IN  \/ cell.k = "num" /\ cell.v > 0
           \/ /\ cell.k = "text"
              /\ cell.s # <<>>
              /\ AllDigits(cell.s, 1, Len(cell.s))
              /\ IntOf(cell.s) > 0

\* the cell is empty, holds text that spells no number, or is outside the grid
BadCell(df, r, c) ==
    \/ r >= df.nrows
    \/ c >= df.ncols
    \/ LET cell == IF <<r, c>> \in DOMAIN df.cells THEN df.cells[<<r, c>>]
                   ELSE df.fill
       IN  \/ cell.k = "empty"
           \/ cell.k = "text" /\ ~(cell.s # <<>> /\ AllDigits(cell.s, 1, Len(cell.s)))

\* the shift names of the blocks whose raw-ore lead grade cell is > 0, in
\* the order of the blocks
RECURSIVE PresentShifts(_, _)
PresentShifts(df, k) ==
    IF k > 3 THEN <<>>
    ELSE (IF PositiveCell(df, 4, 4 * k - 3)
          THEN <<(<<"jia ban", "yi ban", "bing ban">>)[k]>> ELSE <<>>)
         \o PresentShifts(df, k + 1)

ShiftTypes(records) == [i \in 1..Len(records) |-> records[i].shiftType]

\* a three-shift sheet with a resolvable name has been processed
SheetProcessed(i) ==
    /\ script = "accounting"
    /\ i \in Processed
    /\ batch[i].readable
    /\ ~Contains(log[i].diag, <<"Skipping: Could not determine date">>)

\* C4: the records emitted for a three-shift sheet are those of the blocks
\* whose raw-ore lead grade cell is > 0, one a block, in the order of the
\* blocks and each under the shift name of its block; a block whose cell is
\* 0, negative, empty, non-numeric or outside the sheet emits none, and does
\* not stop the later blocks.
C4_PresenceGate ==
    \A i \in 1..Len(batch) :
        SheetProcessed(i) =>
            ShiftTypes(log[i].records) = PresentShifts(batch[i].df, 1)

\* the numbers of a record
Floats(rec) ==
    { rec.runTime,
      rec.rawOre.wetWeight, rec.rawOre.moisture, rec.rawOre.pbGrade,
      rec.rawOre.znGrade, rec.rawOre.agGrade,
      rec.concentrate.pbGrade, rec.concentrate.znGrade, rec.concentrate.agGrade,
      rec.tailings.pbGrade, rec.tailings.znGrade, rec.tailings.agGrade,
      rec.tailings.fineness }

\* the file was read and, in the one-shift layout, its header gave a date
\* and a shift: the cells of the record are read
CellsRead(i) ==
    /\ i \in Processed
    /\ batch[i].readable
    /\ ~IsTempFile(batch[i])
    /\ log[i].diag # <<"Skipping: Could not determine date">>
    /\ log[i].diag # <<"Skipping: Could not parse date/shift">>
    /\ script = "august" => 1 < batch[i].df.nrows

\* C5: in both layouts, reading the cells of a record never aborts the
\* record, no number of an emitted record is NaN, and a cell that is empty,
\* non-numeric or outside the grid is read as 0.0.
C5_GuardedCells ==
    \A i \in 1..Len(batch) :
        CellsRead(i) =>
            /\ "Error parsing" \notin Range(log[i].diag)
            /\ \A k \in 1..Len(log[i].records) :
                   \A x \in Floats(log[i].records[k]) : ~x.nan
            /\ script = "august" =>
                   /\ Len(log[i].records) = 1
                   /\ BadCell(batch[i].df, 4, 1) =>
                          log[i].records[1].rawOre.pbGrade = Num(0)
                   /\ BadCell(batch[i].df, 6, 3) =>
                          log[i].records[1].tailings.agGrade = Num(0)
            /\ script = "accounting" =>
                   \A k \in 1..Len(log[i].records) :
                       LET rec == log[i].records[k]
                           col == IF rec.shiftType = "jia ban" THEN 1
                                  ELSE IF rec.shiftType = "yi ban" THEN 5 ELSE 9
                       IN  /\ BadCell(batch[i].df, 4, col + 3) => rec.runTime = Num(0)
                           /\ BadCell(batch[i].df, 6, col + 3) =>
                                  rec.tailings.fineness = Num(0)

\* the file name holds no date, or the header no date and shift
Unresolvable(f) ==
    IF script = "accounting" THEN DigitRuns(f.name) = {}
    ELSE /\ f.readable
         /\ ~IsTempFile(f)
         /\ 1 < f.df.nrows
         /\ ~Contains(str(iloc(f.df, 1, 0)[1]), <<"lparen">>)

\* the file cannot be read, or a cell of the one-shift layout is missing
ParsingFails(f) ==
    \/ ~f.readable
    \/ script = "august" /\ ~IsTempFile(f) /\ (f.df.nrows < 7 \/ f.df.ncols < 4)

\* the records of a file processed alone
Alone(f) ==
    IF script = "accounting" THEN accounting_parse_file(f).records
    ELSE IF IsTempFile(f) THEN <<>>
    ELSE august_parse_file(f).records

\* no exception has left parse_file; a file whose date cannot be resolved or
\* whose parsing fails gave no record and one diagnostic; every file gave
\* the records it gives when processed alone
Isolated ==
    /\ ~crashed
    /\ Len(log) = next - 1
    /\ \A i \in Processed :
           /\ (Unresolvable(batch[i]) \/ ParsingFails(batch[i])) =>
                  /\ log[i].records = <<>>
                  /\ Len(log[i].diag) = 1
           /\ log[i].records = Alone(batch[i])

\* C6: in a batch, no exception leaves parse_file, a file whose date cannot
\* be resolved or whose parsing fails gives no record and one diagnostic,
\* every file gives the records it gives when processed alone, and the loop
\* over the files gets to the end of the batch.
C6_BatchIsolation ==
    /\ []Isolated
    /\ <>(next = Len(batch) + 1 /\ Len(log) = Len(batch))

\* a batch of three files processed to the end, the second of which cannot
\* be read or resolved, and records from the first and the third
C6_Witness ==
    /\ Len(batch) = 3
    /\ next = 4
    /\ Unresolvable(batch[2]) \/ ParsingFails(batch[2])
    /\ log[2].records = <<>>
    /\ log[1].records # <<>>
    /\ log[3].records # <<>>

====
